---- MODULE Spec2Model ----
(***************************************************************************)
(* Token Bucket and Leaky Bucket rate limiters of the repository, in its   *)
(* three source variants:                                                  *)
(*   "RL"  : src/rate_limiting/{token_bucket,leaky_bucket}.py              *)
(*   "ABP" : src/API BASED PRODUCTS/Question 3/{token,leaky}_bucket_python *)
(*   "AP"  : src/API Project/question3_rate_limiting/{token,leaky}_bucket  *)
(*                                                                         *)
(* Time is counted in clock ticks.  A rate is a number of units per tick, *)
(* where one token (or one queued request) is RateDen units, so that the  *)
(* float arithmetic of the sources (elapsed * rate, tokens - cost) is     *)
(* exact in integers.  Token levels are stored in units.                  *)
(***************************************************************************)
EXTENDS Integers, Sequences, FiniteSets, TLC

\* ---- bounds of the model ------------------------------------------------
MaxTime == 2
MaxCalls == 2
MaxCapacity == 1
MaxBuckets == 2
\* a single caller: calls, clock readings and the largest capacity
MaxSeqCalls == 3
MaxSeqTime == 4
MaxSeqCapacity == 2
\* the capacity of the bucket of the drain scenario
DrainCapacity == 4
\* calls made on one multi-client limiter
MaxRegCalls == 3

\* units per token; with rate r the bucket gains r / RateDen tokens per tick
RateDen == 2

\* the request-handling threads
Threads == {1, 2}
BucketIds == 1..MaxBuckets
Clients == {"A", "B"}
Algos == {"token", "leaky"}
Variants == {"RL", "ABP", "AP"}
Capacities == 1..MaxCapacity
Rates == {1}
\* costs of a request, in tokens: the default cost of one token and a cost
\* that exceeds every capacity
Costs == {1, MaxCapacity + 1}
\* token counts a caller may pass, valid or not
AnyCosts == (-1)..(MaxCapacity + 1)
\* initial_tokens / initial_size arguments given to the AP constructors:
\* nothing, or more than the capacity
InitialArgs(cap) == {0, cap + 1}
\* constructor arguments a caller may pass, valid or not
AnyCapacities == (-1)..MaxCapacity
AnyRates == (-1)..1
SeqCapacities == 1..MaxSeqCapacity

VARIABLES
  variant,      \* which source variant is running
  mode,         \* the limiter classes the program instantiated
  built,        \* outcome of the construction: "none", "ok", "error"
  capacity,     \* self.capacity (tokens / queue slots)
  rate,         \* self.refill_rate / self.leak_rate, units per tick
  initial,      \* the initial_tokens / initial_size argument, if one was given
  limits,       \* the run: caller threads, calls, last clock tick, costs,
                \* whether the AP status operations are called, whether
                \* admissions are recorded per tick, and whether the
                \* callers are the request handlers of the API server
  now,          \* time.time(), in ticks
  tokens,       \* TokenBucket.tokens, per bucket object, in units
  last_refill,  \* TokenBucket.last_refill / last_refill_time
  queue,        \* LeakyBucket.bucket / queue: sequence of timestamps
  last_leak,    \* LeakyBucket.last_leak / last_leak_time
  lock,         \* bucket.lock holder per algorithm and bucket, 0 = free
  buckets,      \* limiter.buckets: client -> bucket object, 0 = absent
  nbuckets,     \* number of bucket objects constructed so far
  owner,        \* the client a bucket object was constructed for
  reglock,      \* limiter.lock holder per algorithm, 0 = free
  pc,           \* position of each thread
  call,         \* the call a thread is executing
  ref,          \* the thread's local `bucket`
  ok,           \* the thread's local outcome of a membership / level test
  ret,          \* the value returned by the call
  epoch,        \* history: admissions since the clock last moved
  firstuse,     \* history: admissions since a client's first use
  admitted,     \* history: what each bucket admitted at each clock reading
  fill,         \* history: when a leaky bucket was last filled to capacity
  twin,         \* history: each bucket as it would be had no status call
                \* ever been made on it
  promise,      \* history: when a token bucket was emptied, and the last
                \* wait time a caller was told
  ncalls        \* number of calls started

vars == <<variant, mode, built, capacity, rate, initial, limits, now, tokens, last_refill,
          queue, last_leak, lock, buckets, nbuckets, owner, reglock, pc,
          call, ref, ok, ret, epoch, firstuse, admitted, fill, twin, promise,
          ncalls>>

cfgvars == <<variant, mode, built, capacity, rate, initial, limits>>
tokvars == <<tokens, last_refill>>
leakvars == <<queue, last_leak>>
regvars == <<buckets, nbuckets, owner, reglock>>
histvars == <<epoch, firstuse, admitted>>
scenvars == <<fill, twin, promise>>

\* ---- values -------------------------------------------------------------
Min(a, b) == IF a <= b THEN a ELSE b
Max(a, b) == IF a >= b THEN a ELSE b

\* Python int(): truncation toward zero of a / b, b > 0
Trunc(a, b) == IF a >= 0 THEN a \div b ELSE 0 - ((0 - a) \div b)

\* Python values returned to a caller
None == [tag |-> "None", num |-> 0, den |-> 1]
Float(n, d) == [tag |-> "float", num |-> n, den |-> d]
NoCall == [op |-> "none", algo |-> "token", client |-> "A", cost |-> 1]
NoRet == [kind |-> "none", allowed |-> FALSE, val |-> None, wait |-> None,
          age |-> None, code |-> 0]
\* an exception (ZeroDivisionError) leaves the call
Raised == [NoRet EXCEPT !.kind = "raise"]
\* a bool; a float; a tuple (allowed, retry_after); a status dict with its
\* level and, for a leaky bucket, its is_full flag
RetBool(b) == [NoRet EXCEPT !.kind = "bool", !.allowed = b]
RetNum(v) == [NoRet EXCEPT !.kind = "num", !.val = v]
RetPair(b, v) == [NoRet EXCEPT !.kind = "pair", !.allowed = b, !.val = v]
RetInfo(v, full) == [NoRet EXCEPT !.kind = "info", !.allowed = full, !.val = v]
\* the status dict of an AP limiter: its level, wait_time_seconds and, for a
\* leaky bucket, oldest_request_age_seconds
RetStatus(v, w, g) ==
  [NoRet EXCEPT !.kind = "status", !.val = v, !.wait = w, !.age = g]

\* Python round(x, 2) of a non-negative x: to the nearest hundredth, a tie
\* to the even one
Round2(x) ==
  IF x.tag # "float" THEN x
  ELSE LET q == (x.num * 100) \div x.den
           r == (x.num * 100) % x.den
       IN  Float(IF 2 * r > x.den \/ (2 * r = x.den /\ q % 2 = 1)
                 THEN q + 1 ELSE q, 100)

\* an endpoint that answers 200 whatever the limiter decided
StatusCodeOk(allowed) == 200

\* the status code of an endpoint: 200 if allowed, else 429
StatusCode(allowed) == IF allowed THEN 200 ELSE 429

\* the response of an API endpoint: status code, the level shown on success
\* and retry_after on a denial
Response(code, level, retry) ==
  [NoRet EXCEPT !.kind = "response", !.allowed = (code = 200), !.code = code,
                !.val = level, !.wait = retry]

ModeAlgos(m) == IF m = "both" THEN Algos ELSE {m}

\* ---- TokenBucket --------------------------------------------------------
\* capacity and cost in units
CapUnits == capacity * RateDen

\* a weighted request charged as a request of one token
CostUnitsOne(c) == RateDen

CostUnits(c) == c * RateDen

\* a refill that forgets min(self.capacity, ...)
refill_unclamped(tok, last, t) ==
  LET tokens_to_add == (t - last) * rate
  IN  IF tokens_to_add > 0
      THEN [tokens |-> tok + tokens_to_add, last |-> t]
      ELSE [tokens |-> tok, last |-> last]

\* a refill that credits the elapsed time without moving last_refill
refill_stale(tok, last, t) ==
  LET tokens_to_add == (t - last) * rate
  IN  IF tokens_to_add > 0
      THEN [tokens |-> Min(CapUnits, tok + tokens_to_add), last |-> last]
      ELSE [tokens |-> tok, last |-> last]

\* RL / AP: _refill_tokens, guarded by tokens_to_add > 0
refill_tokens(tok, last, t) ==
  LET tokens_to_add == (t - last) * rate
  IN  IF tokens_to_add > 0
      THEN [tokens |-> Min(CapUnits, tok + tokens_to_add), last |-> t]
      ELSE [tokens |-> tok, last |-> last]

\* ABP: _refill, unguarded
refill(tok, last, t) ==
  LET tokens_to_add == (t - last) * rate
  IN  [tokens |-> Min(CapUnits, tok + tokens_to_add), last |-> t]

\* a read of the stored level that skips the advance step
RefilledNever(b, t) == [tokens |-> tokens[b], last |-> last_refill[b]]

\* the advance step of the running variant, for bucket b at clock t
Refilled(b, t) ==
  IF variant = "ABP" THEN refill(tokens[b], last_refill[b], t)
  ELSE refill_tokens(tokens[b], last_refill[b], t)

\* a level test that refuses the last token, `>` for `>=`
EnoughStrict(tok, cost) == tok > CostUnits(cost)

\* the advance step on the twin of bucket b
TwinRefilled(b, t) ==
  IF variant = "ABP" THEN refill(twin[b].tokens, twin[b].last_refill, t)
  ELSE refill_tokens(twin[b].tokens, twin[b].last_refill, t)

\* `if self.tokens >= tokens`
Enough(tok, cost) == tok >= CostUnits(cost)

\* a denial that takes what tokens there are
DebitedAnyway(tok, cost, won) == Max(0, tok - CostUnits(cost))

\* `self.tokens -= tokens` on success, nothing on `return False`
Debited(tok, cost, won) == IF won THEN tok - CostUnits(cost) ELSE tok

\* a wait time that forgets the tokens already in the bucket
TokenWaitFromEmpty(tok, cost) ==
  IF Enough(tok, cost) THEN Float(0, 1)
  ELSE Float(CostUnits(cost), rate)

\* wait_time_for_tokens / get_wait_time of a token bucket, level tok
TokenWait(tok, cost) ==
  IF Enough(tok, cost) THEN Float(0, 1)
  ELSE Float(CostUnits(cost) - tok, rate)

\* a denial that returns no wait time
RLRetryNone(available) == None

\* a wait that ends one unit short of a whole token
RLRetryShort(available) ==
  Float(Max(0, CostUnits(1) - available - 1), rate)

\* RL allow_request on denial: max(0, (1 - available) / refill_rate)
RLRetry(available) == Float(Max(0, CostUnits(1) - available), rate)

\* ---- LeakyBucket --------------------------------------------------------
\* a drain that takes the newest entries, from the back of the queue
DropNewest(q, n) == SubSeq(q, 1, Len(q) - Max(0, Min(n, Len(q))))

RECURSIVE Drop(_, _)
Drop(q, n) == IF n <= 0 \/ q = <<>> THEN q ELSE Drop(Tail(q), n - 1)

\* a drain that removes one request per call however long it was idle
leak_single(q, last, t) ==
  LET requests_to_process == Trunc((t - last) * rate, RateDen)
  IN  IF requests_to_process > 0
      THEN [queue |-> Drop(q, 1), last |-> t]
      ELSE [queue |-> q, last |-> last]

\* _leak_requests / _leak: int(elapsed * leak_rate) requests leave the front
\* a leak step that removes the oldest entry whether or not one is earned
leak_eager(q, last, t) == [queue |-> Drop(q, 1), last |-> t]

leak_requests(q, last, t) ==
  LET requests_to_process == Trunc((t - last) * rate, RateDen)
  IN  IF requests_to_process > 0
      THEN [queue |-> Drop(q, Min(requests_to_process, Len(q))), last |-> t]
      ELSE [queue |-> q, last |-> last]

Leaked(b, t) == leak_requests(queue[b], last_leak[b], t)

TwinLeaked(b, t) == leak_requests(twin[b].queue, twin[b].last_leak, t)

\* an off-by-one room test, `<=` for `<`
HasRoomOffByOne(q) == Len(q) <= capacity

\* `if len(self.queue) < self.capacity`
HasRoom(q) == Len(q) < capacity

\* get_wait_time of a leaky bucket with queue q
LeakyWait(q) ==
  IF variant = "RL"
  THEN IF Len(q) = 0 THEN Float(0, 1) ELSE Float(Len(q) * RateDen, rate)
  ELSE IF Len(q) < capacity THEN Float(0, 1)
  ELSE IF variant = "ABP" THEN Float(RateDen, rate)
  ELSE IF q # <<>> THEN Float(Max(0, Len(q) * RateDen), rate)
  ELSE Float(0, 1)

\* an admission that forgets to queue the request
append_skipped(q, x) == q

\* deque.append; the AP queue is a deque(maxlen=capacity), which drops its
\* leftmost entry when an append finds it full
append(q, x) ==
  IF variant = "AP" /\ capacity > 0 /\ Len(q) >= capacity
  THEN Append(Tail(q), x)
  ELSE Append(q, x)

\* ---- locks --------------------------------------------------------------
\* a bucket whose operations do not take the lock
LockIgnored(a, b) == TRUE

\* threading.Lock of a bucket: `with self.lock` enters only when it is free
LockFree(a, b) == lock[a][b] = 0

\* a limiter whose check-then-create does not take the lock
RegLockIgnored(a) == TRUE

\* threading.Lock of a multi-client limiter
RegLockFree(a) == reglock[a] = 0

\* a lookup that hands every client the first bucket of the dict
LookupFirst(a, c) == IF nbuckets[a] > 0 THEN 1 ELSE 0

\* `bucket = self.buckets[client_id]`
Lookup(a, c) == buckets[a][c]

\* ---- construction -------------------------------------------------------
\* __init__ of the buckets: RL and AP raise ValueError on capacity <= 0 or
\* rate <= 0; ABP stores whatever it is given
Validated(v, cap, r) == v = "ABP" \/ (cap > 0 /\ r > 0)

\* the limiter object of RL and AP owns one bucket, registered here under
\* client "A"; the ABP limiters start with an empty `buckets` dict
InitBuckets(v) ==
  [a \in Algos |-> [c \in Clients |-> IF v # "ABP" /\ c = "A" THEN 1 ELSE 0]]

\* self.tokens = initial_tokens if initial_tokens is not None else capacity
InitTokens(v, cap, given, iv) ==
  [b \in BucketIds |->
     IF v = "ABP" \/ b # 1 THEN 0
     ELSE IF v = "AP" /\ given THEN iv * RateDen
     ELSE cap * RateDen]

\* for _ in range(min(initial_size, capacity)): self.queue.append(time.time())
InitQueue(v, cap, given, iv) ==
  [b \in BucketIds |->
     IF v = "AP" /\ b = 1 /\ given
     THEN [i \in 1..Max(0, Min(iv, cap)) |-> 0]
     ELSE <<>>]

InitEpoch(v, cap, tok, qs) ==
  [a \in Algos |-> [c \in Clients |->
     IF v # "ABP" /\ c = "A"
     THEN [open |-> TRUE,
           level |-> IF a = "token" THEN tok[1] \div RateDen
                     ELSE cap - Len(qs[1]),
           n |-> 0, adm |-> 0]
     ELSE [open |-> FALSE, level |-> 0, n |-> 0, adm |-> 0]]]

\* nothing is known of a token bucket: it was not emptied, no wait was told
NoPromise ==
  [empty |-> FALSE, since |-> 0, told |-> FALSE, at |-> 0, wait |-> 0,
   per |-> 1, cost |-> 0]

\* a consume succeeded at clock t and left `left` units in the bucket: what
\* was told before is void, and the bucket is empty from t on if left = 0
Taken(left, t) ==
  IF left = 0 THEN [NoPromise EXCEPT !.empty = TRUE, !.since = t]
  ELSE NoPromise

\* a caller was told at clock t to wait w ticks for `cost` tokens
Told(p, w, cost, t) ==
  IF w.tag = "float" /\ w.den > 0
  THEN [p EXCEPT !.told = TRUE, !.at = t, !.wait = w.num, !.per = w.den,
                 !.cost = cost]
  ELSE p

\* a bucket that is not known to be full
NoFill == [on |-> FALSE, at |-> 0, idle |-> FALSE, owed |-> 0]

\* the bucket became full at clock t and no call has reached it since
FilledAt(t) == [on |-> TRUE, at |-> t, idle |-> TRUE, owed |-> 0]

\* clock ticks in which n requests leak at the running rate
LeakTicks(n) == n * RateDen

InitModes(modes, caps, rates) ==
  /\ variant \in Variants
  /\ mode \in modes
  /\ capacity \in caps
  /\ rate \in rates
  /\ built = IF Validated(variant, capacity, rate) THEN "ok" ELSE "error"
  /\ now = 0
  /\ \E given \in BOOLEAN, iv \in InitialArgs(capacity) :
       /\ (variant # "AP" \/ built = "error") => (~given /\ iv = 0)
       /\ ~given => iv = 0
       /\ initial = [given |-> given, value |-> iv]
       /\ tokens = InitTokens(variant, capacity, given /\ mode = "token", iv)
       /\ queue = InitQueue(variant, capacity, given /\ mode = "leaky", iv)
  /\ last_refill = [b \in BucketIds |-> 0]
  /\ last_leak = [b \in BucketIds |-> 0]
  /\ lock = [a \in Algos |-> [b \in BucketIds |-> 0]]
  /\ buckets = InitBuckets(variant)
  /\ nbuckets = [a \in Algos |-> IF variant = "ABP" THEN 0 ELSE 1]
  /\ owner = [a \in Algos |-> [b \in BucketIds |->
                IF variant # "ABP" /\ b = 1 THEN "A" ELSE "-"]]
  /\ reglock = [a \in Algos |-> 0]
  /\ pc = [t \in Threads |-> "idle"]
  /\ call = [t \in Threads |-> NoCall]
  /\ ref = [t \in Threads |-> 0]
  /\ ok = [t \in Threads |-> FALSE]
  /\ ret = [t \in Threads |-> NoRet]
  /\ epoch = InitEpoch(variant, capacity, tokens, queue)
  /\ firstuse = [a \in Algos |-> [c \in Clients |-> [fresh |-> FALSE, adm |-> 0]]]
  /\ admitted = [a \in Algos |-> [b \in BucketIds |-> <<0>>]]
  /\ twin = [b \in BucketIds |->
               [tokens |-> tokens[b], last_refill |-> 0,
                queue |-> queue[b], last_leak |-> 0]]
  /\ fill = [b \in BucketIds |->
               IF queue[b] # <<>> /\ Len(queue[b]) >= capacity
               THEN FilledAt(0) ELSE NoFill]
  /\ promise = [b \in BucketIds |-> NoPromise]
  /\ ncalls = 0

InitWith(caps, rates) == InitModes(Algos, caps, rates)

\* two request threads call the limiters concurrently
ConcurrentRun ==
  [threads |-> 2, calls |-> MaxCalls, time |-> MaxTime, costs |-> Costs,
   status |-> FALSE, window |-> FALSE, server |-> FALSE]

\* one caller makes a longer run of calls
SingleRun ==
  [threads |-> 1, calls |-> MaxSeqCalls, time |-> MaxSeqTime, costs |-> Costs,
   status |-> FALSE, window |-> FALSE, server |-> FALSE]

Init == InitWith(Capacities, Rates) /\ limits = ConcurrentRun

InitConfig == InitWith(AnyCapacities, AnyRates) /\ limits = ConcurrentRun

InitSeq == InitWith(SeqCapacities, Rates) /\ limits = SingleRun

\* ---- calls --------------------------------------------------------------
\* the public operations of the running variant; the ABP buckets live inside
\* the multi-client limiter and are driven through it.  The AP limiters build
\* their bucket themselves (initial_tokens = burst, initial_size = 0), so a
\* bucket given another initial level is one used without a limiter.
Ops(v, a) ==
  IF v = "ABP" THEN {"allow_request", "get_client_info"}
  ELSE IF a = "token"
  THEN {"consume", "get_available_tokens", "allow_request"}
       \cup (IF v = "RL" THEN {"reset"} ELSE {"wait_time"})
  ELSE {"add_request", "get_queue_size", "get_wait_time", "allow_request"}
       \cup (IF v = "RL" THEN {"reset"} ELSE {})

\* the status operations of AP: get_status of the limiters and
\* get_oldest_request_age of the leaky bucket
StatusOps(v, a) ==
  IF v # "AP" THEN {}
  ELSE IF a = "token" THEN {"get_status"}
  ELSE {"get_status", "get_oldest_request_age"}

\* what the API server's handlers begin with: allow_request of the
\* endpoint's limiter, or reset of the token bucket
ServerOps(a) ==
  IF a = "token" THEN {"allow_request", "reset"} ELSE {"allow_request"}

\* operations of the limiter object, which find their bucket themselves
LimiterOps == {"allow_request", "get_client_info"}

\* operations that take a token count
CostOps(v) == IF v = "ABP" THEN {"allow_request"} ELSE {"consume", "wait_time"}

\* where a call starts
Entry(v, a, op) ==
  CASE op = "allow_request" /\ v = "ABP" -> "reg_check"
    [] op = "allow_request" /\ v # "ABP" -> IF a = "token" THEN "consume" ELSE "add"
    [] op = "get_client_info" -> "info"
    [] op = "consume" -> "consume"
    [] op = "get_available_tokens" -> "status"
    [] op = "wait_time" -> "wait"
    [] op = "reset" -> "reset"
    [] op = "add_request" -> "add"
    [] op = "get_queue_size" -> "size"
    [] op = "get_wait_time" -> "lwait"
    [] op = "get_status" -> IF a = "token" THEN "st_tokens" ELSE "st_size"
    [] op = "get_oldest_request_age" -> "age"

Goto(t, p) == pc' = [pc EXCEPT ![t] = p]

\* the call returns r
Done(t, r) ==
  /\ pc' = [pc EXCEPT ![t] = "done"]
  /\ ret' = [ret EXCEPT ![t] = r]

Acquire(a, b, t) == lock' = [lock EXCEPT ![a][b] = t]
\* a bucket method that leaves without releasing its lock
ReleaseSkipped(a, b) == UNCHANGED lock

Release(a, b) == lock' = [lock EXCEPT ![a][b] = 0]

\* Threads are interchangeable and so are client ids: of the behaviours that
\* differ only by renaming them, the one is kept in which thread 1 makes the
\* first call and client "A" is the first client served.
FirstComer(t, c) ==
  /\ t # 1 => call[1].op # "none"
  /\ c # "A" => \E u \in Threads : call[u].op # "none"

\* a thread calls a public operation
Call(t) ==
  /\ built = "ok"
  /\ pc[t] \in {"idle", IF limits.server THEN "responded" ELSE "done"}
  /\ t <= limits.threads
  /\ ncalls < limits.calls
  /\ \E a \in ModeAlgos(mode), c \in Clients, k \in limits.costs :
     \E op \in Ops(variant, a)
               \cup (IF limits.status THEN StatusOps(variant, a) ELSE {}) :
       /\ FirstComer(t, c)
       /\ variant # "ABP" => c = "A"
       /\ (variant = "AP" /\ op \in {"allow_request", "get_status"}) =>
            ~initial.given
       /\ op \notin LimiterOps => buckets[a][c] # 0
       /\ limits.server => op \in ServerOps(a)
       /\ (a = "leaky" \/ op \notin CostOps(variant)) => k = 1
       /\ call' = [call EXCEPT ![t] = [op |-> op, algo |-> a, client |-> c,
                                       cost |-> k]]
       /\ ref' = [ref EXCEPT ![t] = IF op \in LimiterOps /\ variant = "ABP"
                                    THEN 0 ELSE buckets[a][c]]
       /\ Goto(t, Entry(variant, a, op))
  /\ ok' = [ok EXCEPT ![t] = FALSE]
  /\ ret' = [ret EXCEPT ![t] = NoRet]
  /\ ncalls' = ncalls + 1
  /\ UNCHANGED scenvars
  /\ UNCHANGED <<cfgvars, now, tokvars, leakvars, lock, regvars, histvars>>

\* ---- history ------------------------------------------------------------
\* what a bucket can admit at clock t: whole tokens, or free queue slots
Avail(a, b, t) ==
  IF a = "token" THEN Refilled(b, t).tokens \div RateDen
  ELSE capacity - Len(Leaked(b, t).queue)

\* a new epoch starts for every bucket when the clock moves to t
EpochAt(t) ==
  [a \in Algos |-> [c \in Clients |->
     IF buckets[a][c] = 0
     THEN [open |-> FALSE, level |-> 0, n |-> 0, adm |-> 0]
     ELSE [open |-> lock[a][buckets[a][c]] = 0,
           level |-> Avail(a, buckets[a][c], t), n |-> 0, adm |-> 0]]]

\* a consume / add_request of the given cost completed for client c
Admission(a, c, cost, won) ==
  /\ epoch' = [epoch EXCEPT ![a][c] =
       IF cost = 1
       THEN [@ EXCEPT !.n = @ + 1, !.adm = @ + (IF won THEN 1 ELSE 0)]
       ELSE IF won THEN [@ EXCEPT !.open = FALSE] ELSE @]
  /\ firstuse' = [firstuse EXCEPT ![a][c].adm = @ + (IF won THEN cost ELSE 0)]
  /\ UNCHANGED admitted

\* bucket b of algorithm a decides, at its reading of the clock, to admit
\* `units`
Logged(a, b, units, won) ==
  admitted' = IF limits.window /\ won
              THEN [admitted EXCEPT ![a][b][Len(admitted[a][b])] = @ + units]
              ELSE admitted

\* any call other than add_request reaches leaky bucket b at clock t: the
\* bucket is no longer idle, and a get_queue_size made after a full bucket
\* was left alone for capacity / leak_rate seconds is owed capacity
\* admissions
Polled(b, t, size) ==
  fill' = [fill EXCEPT ![b] =
    IF size /\ @.on /\ @.idle /\ (t - @.at) * rate >= LeakTicks(capacity)
    THEN [@ EXCEPT !.idle = FALSE, !.owed = capacity]
    ELSE [@ EXCEPT !.idle = FALSE]]

\* ---- the clock ----------------------------------------------------------
Tick ==
  /\ built = "ok"
  /\ now < limits.time
  /\ now' = now + 1
  /\ epoch' = EpochAt(now + 1)
  /\ firstuse' = [a \in Algos |-> [c \in Clients |->
                    [firstuse[a][c] EXCEPT !.fresh = FALSE]]]
  /\ admitted' = IF limits.window
                 THEN [a \in Algos |-> [b \in BucketIds |->
                         Append(admitted[a][b], 0)]]
                 ELSE admitted
  /\ UNCHANGED scenvars
  /\ UNCHANGED <<cfgvars, tokvars, leakvars, lock, regvars, pc, call, ref,
                 ok, ret, ncalls>>

\* the wall clock is set back
ClockBack ==
  /\ built = "ok"
  /\ now > 0
  /\ now' = now - 1
  /\ epoch' = EpochAt(now - 1)
  /\ firstuse' = [a \in Algos |-> [c \in Clients |->
                    [firstuse[a][c] EXCEPT !.fresh = FALSE]]]
  /\ UNCHANGED admitted
  /\ UNCHANGED scenvars
  /\ UNCHANGED <<cfgvars, tokvars, leakvars, lock, regvars, pc, call, ref,
                 ok, ret, ncalls>>

\* ---- TokenBucket operations ---------------------------------------------
\* consume: `with self.lock: self._refill()` and `if self.tokens >= tokens`
ConsumeRefill(t) ==
  LET a == "token"  b == ref[t]  r == Refilled(b, now) IN
  /\ pc[t] = "consume"
  /\ LockFree(a, b)
  /\ Acquire(a, b, t)
  /\ tokens' = [tokens EXCEPT ![b] = r.tokens]
  /\ last_refill' = [last_refill EXCEPT ![b] = r.last]
  /\ ok' = [ok EXCEPT ![t] = Enough(r.tokens, call[t].cost)]
  /\ Goto(t, "finish")
  /\ twin' = [twin EXCEPT ![b].tokens = TwinRefilled(b, now).tokens,
                          ![b].last_refill = TwinRefilled(b, now).last]
  /\ Logged(a, b, CostUnits(call[t].cost), ok'[t])
  /\ UNCHANGED <<fill, promise>>
  /\ UNCHANGED <<cfgvars, now, leakvars, regvars, call, ref, ret, epoch,
                 firstuse, ncalls>>

\* what allow_request does with the outcome of consume / add_request
AfterDecision(t, won, deniedpc) ==
  IF call[t].op \in {"consume", "add_request"} THEN Done(t, RetBool(won))
  ELSE IF variant = "AP" THEN Done(t, RetBool(won))
  ELSE IF won THEN Done(t, RetPair(TRUE, None))
  ELSE Goto(t, deniedpc) /\ UNCHANGED ret

\* consume: `self.tokens -= tokens; return True` or `return False`, and the
\* lock is released
ConsumeFinish(t) ==
  LET a == "token"  b == ref[t]  k == call[t].cost  won == ok[t] IN
  /\ pc[t] = "finish"
  /\ tokens' = [tokens EXCEPT ![b] = Debited(@, k, won)]
  /\ Release(a, b)
  /\ Admission(a, call[t].client, k, won)
  /\ AfterDecision(t, won, IF variant = "RL" THEN "status" ELSE "wait")
  /\ twin' = [twin EXCEPT ![b].tokens =
                 IF Enough(@, k) THEN @ - CostUnits(k) ELSE @]
  /\ promise' = [promise EXCEPT ![b] =
       IF won THEN Taken(tokens'[b], now) ELSE @]
  /\ UNCHANGED fill
  /\ UNCHANGED <<cfgvars, now, last_refill, leakvars, regvars, call, ref, ok,
                 ncalls>>

\* get_available_tokens, also called by the RL allow_request after a denial
GetAvailableTokens(t) ==
  LET a == "token"  b == ref[t]  r == Refilled(b, now) IN
  /\ pc[t] = "status"
  /\ LockFree(a, b)
  /\ tokens' = [tokens EXCEPT ![b] = r.tokens]
  /\ last_refill' = [last_refill EXCEPT ![b] = r.last]
  /\ Done(t, IF call[t].op = "allow_request"
             THEN RetPair(FALSE, RLRetry(r.tokens))
             ELSE RetNum(Float(r.tokens, RateDen)))
  /\ promise' = [promise EXCEPT ![b] =
       IF call[t].op = "allow_request"
       THEN Told(@, RLRetry(r.tokens), 1, now) ELSE @]
  /\ UNCHANGED <<fill, twin>>
  /\ UNCHANGED <<cfgvars, now, leakvars, lock, regvars, call, ref, ok,
                 histvars, ncalls>>

\* wait_time_for_tokens (ABP) / get_wait_time (AP), also called by the ABP
\* allow_request after a denial
WaitTime(t) ==
  LET a == "token"  b == ref[t]  r == Refilled(b, now)
      w == TokenWait(r.tokens, call[t].cost) IN
  /\ pc[t] = "wait"
  /\ LockFree(a, b)
  /\ tokens' = [tokens EXCEPT ![b] = r.tokens]
  /\ last_refill' = [last_refill EXCEPT ![b] = r.last]
  /\ Done(t, IF w.den = 0 THEN Raised
             ELSE IF call[t].op = "allow_request" THEN RetPair(FALSE, w)
             ELSE RetNum(w))
  /\ promise' = [promise EXCEPT ![b] = Told(@, w, call[t].cost, now)]
  /\ UNCHANGED <<fill, twin>>
  /\ UNCHANGED <<cfgvars, now, leakvars, lock, regvars, call, ref, ok,
                 histvars, ncalls>>

\* RL reset: full bucket, last_refill = time.time()
Reset(t) ==
  LET a == call[t].algo  b == ref[t]  c == call[t].client IN
  /\ pc[t] = "reset"
  /\ LockFree(a, b)
  /\ IF a = "token"
     THEN /\ tokens' = [tokens EXCEPT ![b] = CapUnits]
          /\ last_refill' = [last_refill EXCEPT ![b] = now]
          /\ UNCHANGED leakvars
     ELSE /\ queue' = [queue EXCEPT ![b] = <<>>]
          /\ last_leak' = [last_leak EXCEPT ![b] = now]
          /\ UNCHANGED tokvars
  /\ epoch' = [epoch EXCEPT ![a][c] =
                 [open |-> TRUE, level |-> capacity, n |-> 0, adm |-> 0]]
  /\ admitted' = [admitted EXCEPT ![a][b] = [i \in 1..Len(@) |-> 0]]
  /\ Done(t, NoRet)
  /\ twin' = [twin EXCEPT ![b] =
       IF a = "token"
       THEN [@ EXCEPT !.tokens = CapUnits, !.last_refill = now]
       ELSE [@ EXCEPT !.queue = <<>>, !.last_leak = now]]
  /\ fill' = IF a = "leaky" THEN [fill EXCEPT ![b] = NoFill] ELSE fill
  /\ UNCHANGED promise
  /\ UNCHANGED <<cfgvars, now, lock, regvars, call, ref, ok, firstuse,
                 ncalls>>

\* ---- LeakyBucket operations ---------------------------------------------
\* add_request: `with self.lock: self._leak_requests()` and
\* `if len(self.bucket) < self.capacity`
AddLeak(t) ==
  LET a == "leaky"  b == ref[t]  r == Leaked(b, now) IN
  /\ pc[t] = "add"
  /\ LockFree(a, b)
  /\ Acquire(a, b, t)
  /\ queue' = [queue EXCEPT ![b] = r.queue]
  /\ last_leak' = [last_leak EXCEPT ![b] = r.last]
  /\ ok' = [ok EXCEPT ![t] = HasRoom(r.queue)]
  /\ Goto(t, "add_finish")
  /\ twin' = [twin EXCEPT ![b].queue = TwinLeaked(b, now).queue,
                          ![b].last_leak = TwinLeaked(b, now).last]
  /\ fill' = [fill EXCEPT ![b] = [@ EXCEPT !.on = FALSE, !.idle = FALSE]]
  /\ Logged(a, b, 1, ok'[t])
  /\ UNCHANGED promise
  /\ UNCHANGED <<cfgvars, now, tokvars, regvars, call, ref, ret, epoch,
                 firstuse, ncalls>>

\* add_request: `self.bucket.append(time.time()); return True` or
\* `return False`, and the lock is released
AddFinish(t) ==
  LET a == "leaky"  b == ref[t]  won == ok[t] IN
  /\ pc[t] = "add_finish"
  /\ queue' = [queue EXCEPT ![b] = IF won THEN append(@, now) ELSE @]
  /\ Release(a, b)
  /\ Admission(a, call[t].client, 1, won)
  /\ AfterDecision(t, won, "lwait")
  /\ twin' = [twin EXCEPT ![b].queue =
                 IF HasRoom(@) THEN append(@, now) ELSE @]
  /\ fill' = [fill EXCEPT ![b] =
       IF won /\ Len(queue'[b]) >= capacity THEN FilledAt(now)
       ELSE [@ EXCEPT !.owed = Max(0, @ - 1)]]
  /\ UNCHANGED promise
  /\ UNCHANGED <<cfgvars, now, tokvars, last_leak, regvars, call, ref, ok,
                 ncalls>>

\* get_queue_size
GetQueueSize(t) ==
  LET a == "leaky"  b == ref[t]  r == Leaked(b, now) IN
  /\ pc[t] = "size"
  /\ LockFree(a, b)
  /\ queue' = [queue EXCEPT ![b] = r.queue]
  /\ last_leak' = [last_leak EXCEPT ![b] = r.last]
  /\ Done(t, RetNum(Float(Len(r.queue), 1)))
  /\ UNCHANGED <<twin, promise>>
  /\ Polled(b, now, TRUE)
  /\ UNCHANGED <<cfgvars, now, tokvars, lock, regvars, call, ref, ok,
                 histvars, ncalls>>

\* get_wait_time, also called by the RL and ABP allow_request after a denial
GetWaitTime(t) ==
  LET a == "leaky"  b == ref[t]  r == Leaked(b, now)
      w == LeakyWait(r.queue) IN
  /\ pc[t] = "lwait"
  /\ LockFree(a, b)
  /\ queue' = [queue EXCEPT ![b] = r.queue]
  /\ last_leak' = [last_leak EXCEPT ![b] = r.last]
  /\ Done(t, IF w.den = 0 THEN Raised
             ELSE IF call[t].op = "allow_request" THEN RetPair(FALSE, w)
             ELSE RetNum(w))
  /\ UNCHANGED <<twin, promise>>
  /\ Polled(b, now, FALSE)
  /\ UNCHANGED <<cfgvars, now, tokvars, lock, regvars, call, ref, ok,
                 histvars, ncalls>>

\* ---- the multi-client limiters (ABP) ------------------------------------
\* allow_request: `with self.lock: if client_id not in self.buckets`
RegCheck(t) ==
  LET a == call[t].algo  c == call[t].client IN
  /\ pc[t] = "reg_check"
  /\ RegLockFree(a)
  /\ reglock' = [reglock EXCEPT ![a] = t]
  /\ ok' = [ok EXCEPT ![t] = (buckets[a][c] = 0)]
  /\ Goto(t, "reg_insert")
  /\ UNCHANGED scenvars
  /\ UNCHANGED <<cfgvars, now, tokvars, leakvars, lock, buckets, nbuckets,
                 owner, call, ref, ret, histvars, ncalls>>

\* allow_request: `self.buckets[client_id] = TokenBucket(...)` when the
\* client was missing, and the limiter lock is released
RegInsert(t) ==
  LET a == call[t].algo  c == call[t].client  b == nbuckets[a] + 1 IN
  /\ pc[t] = "reg_insert"
  /\ IF ok[t]
     THEN /\ b \in BucketIds
          /\ buckets' = [buckets EXCEPT ![a][c] = b]
          /\ nbuckets' = [nbuckets EXCEPT ![a] = b]
          /\ owner' = [owner EXCEPT ![a][b] = c]
          /\ IF a = "token"
             THEN /\ tokens' = [tokens EXCEPT ![b] = CapUnits]
                  /\ last_refill' = [last_refill EXCEPT ![b] = now]
                  /\ UNCHANGED leakvars
             ELSE /\ queue' = [queue EXCEPT ![b] = <<>>]
                  /\ last_leak' = [last_leak EXCEPT ![b] = now]
                  /\ UNCHANGED tokvars
          /\ IF buckets[a][c] = 0
             THEN /\ epoch' = [epoch EXCEPT ![a][c] =
                        [open |-> TRUE, level |-> capacity, n |-> 0,
                         adm |-> 0]]
                  /\ firstuse' = [firstuse EXCEPT ![a][c] =
                        [fresh |-> TRUE, adm |-> 0]]
                  /\ UNCHANGED admitted
             ELSE UNCHANGED histvars
     ELSE UNCHANGED <<tokvars, leakvars, buckets, nbuckets, owner, histvars>>
  /\ reglock' = [reglock EXCEPT ![call[t].algo] = 0]
  /\ Goto(t, "lookup")
  /\ twin' = IF ok[t]
             THEN [twin EXCEPT ![b] =
                     IF a = "token"
                     THEN [@ EXCEPT !.tokens = CapUnits, !.last_refill = now]
                     ELSE [@ EXCEPT !.queue = <<>>, !.last_leak = now]]
             ELSE twin
  /\ UNCHANGED <<fill, promise>>
  /\ UNCHANGED <<cfgvars, now, lock, call, ref, ok, ret, ncalls>>

\* allow_request: `bucket = self.buckets[client_id]`, outside the lock
LookupBucket(t) ==
  /\ pc[t] = "lookup"
  /\ ref' = [ref EXCEPT ![t] = Lookup(call[t].algo, call[t].client)]
  /\ Goto(t, IF call[t].algo = "token" THEN "consume" ELSE "add")
  /\ UNCHANGED scenvars
  /\ UNCHANGED <<cfgvars, now, tokvars, leakvars, lock, regvars, call, ok,
                 ret, histvars, ncalls>>

\* a report that an unseen client has nothing left
UnseenInfoSpent(a) ==
  IF a = "token" THEN RetInfo(Float(0, RateDen), FALSE)
  ELSE RetInfo(Float(capacity, 1), TRUE)

\* get_client_info: the dict returned when `client_id not in self.buckets`
UnseenInfo(a) ==
  IF a = "token" THEN RetInfo(Float(CapUnits, RateDen), FALSE)
  ELSE RetInfo(Float(0, 1), FALSE)

\* get_client_info: under the limiter lock, the defaults for an unknown
\* client, else the client's bucket is read
ClientInfo(t) ==
  LET a == call[t].algo  c == call[t].client IN
  /\ pc[t] = "info"
  /\ RegLockFree(a)
  /\ IF buckets[a][c] = 0
     THEN /\ Done(t, UnseenInfo(a))
          /\ UNCHANGED <<reglock, ref>>
     ELSE /\ reglock' = [reglock EXCEPT ![a] = t]
          /\ ref' = [ref EXCEPT ![t] = buckets[a][c]]
          /\ Goto(t, "info_read")
          /\ UNCHANGED ret
  /\ UNCHANGED scenvars
  /\ UNCHANGED <<cfgvars, now, tokvars, leakvars, lock, buckets, nbuckets,
                 owner, call, ok, histvars, ncalls>>

\* get_client_info: bucket.get_available_tokens() / bucket.get_queue_size()
ClientInfoRead(t) ==
  LET a == call[t].algo  b == ref[t] IN
  /\ pc[t] = "info_read"
  /\ LockFree(a, b)
  /\ IF a = "token"
     THEN LET r == Refilled(b, now) IN
          /\ tokens' = [tokens EXCEPT ![b] = r.tokens]
          /\ last_refill' = [last_refill EXCEPT ![b] = r.last]
          /\ Done(t, RetInfo(Float(r.tokens, RateDen), FALSE))
          /\ reglock' = [reglock EXCEPT ![a] = 0]
          /\ UNCHANGED leakvars
     ELSE LET r == Leaked(b, now) IN
          /\ queue' = [queue EXCEPT ![b] = r.queue]
          /\ last_leak' = [last_leak EXCEPT ![b] = r.last]
          /\ ret' = [ret EXCEPT ![t] = RetInfo(Float(Len(r.queue), 1), FALSE)]
          /\ Goto(t, "info_full")
          /\ UNCHANGED <<reglock, tokvars>>
  /\ UNCHANGED <<twin, promise>>
  /\ IF a = "leaky" THEN Polled(b, now, TRUE) ELSE UNCHANGED fill
  /\ UNCHANGED <<cfgvars, now, lock, buckets, nbuckets, owner, call, ref, ok,
                 histvars, ncalls>>

\* get_client_info of the leaky limiter: bucket.is_full(), then the limiter
\* lock is released
ClientInfoFull(t) ==
  LET a == call[t].algo  b == ref[t]  r == Leaked(b, now) IN
  /\ pc[t] = "info_full"
  /\ LockFree(a, b)
  /\ queue' = [queue EXCEPT ![b] = r.queue]
  /\ last_leak' = [last_leak EXCEPT ![b] = r.last]
  /\ Done(t, RetInfo(ret[t].val, Len(r.queue) >= capacity))
  /\ reglock' = [reglock EXCEPT ![a] = 0]
  /\ UNCHANGED <<twin, promise>>
  /\ Polled(b, now, FALSE)
  /\ UNCHANGED <<cfgvars, now, tokvars, lock, buckets, nbuckets, owner, call,
                 ref, ok, histvars, ncalls>>

\* ---- the status operations (AP) -----------------------------------------
\* get_status of the token limiter: available = get_available_tokens()
StatusTokens(t) ==
  LET a == "token"  b == ref[t]  r == Refilled(b, now) IN
  /\ pc[t] = "st_tokens"
  /\ LockFree(a, b)
  /\ tokens' = [tokens EXCEPT ![b] = r.tokens]
  /\ last_refill' = [last_refill EXCEPT ![b] = r.last]
  /\ ret' = [ret EXCEPT ![t] = RetStatus(Float(r.tokens, RateDen), None, None)]
  /\ Goto(t, "st_twait")
  /\ UNCHANGED scenvars
  /\ UNCHANGED <<cfgvars, now, leakvars, lock, regvars, call, ref, ok,
                 histvars, ncalls>>

\* get_status of the token limiter: wait_time = get_wait_time(1), and the
\* dict is returned
StatusTokenWait(t) ==
  LET a == "token"  b == ref[t]  r == Refilled(b, now)
      w == TokenWait(r.tokens, 1) IN
  /\ pc[t] = "st_twait"
  /\ LockFree(a, b)
  /\ tokens' = [tokens EXCEPT ![b] = r.tokens]
  /\ last_refill' = [last_refill EXCEPT ![b] = r.last]
  /\ Done(t, RetStatus(ret[t].val, w, None))
  /\ promise' = [promise EXCEPT ![b] = Told(@, w, 1, now)]
  /\ UNCHANGED <<fill, twin>>
  /\ UNCHANGED <<cfgvars, now, leakvars, lock, regvars, call, ref, ok,
                 histvars, ncalls>>

\* get_status of the leaky limiter: queue_size = get_queue_size()
StatusSize(t) ==
  LET a == "leaky"  b == ref[t]  r == Leaked(b, now) IN
  /\ pc[t] = "st_size"
  /\ LockFree(a, b)
  /\ queue' = [queue EXCEPT ![b] = r.queue]
  /\ last_leak' = [last_leak EXCEPT ![b] = r.last]
  /\ ret' = [ret EXCEPT ![t] = RetStatus(Float(Len(r.queue), 1), None, None)]
  /\ Goto(t, "st_lwait")
  /\ UNCHANGED <<twin, promise>>
  /\ Polled(b, now, TRUE)
  /\ UNCHANGED <<cfgvars, now, tokvars, lock, regvars, call, ref, ok,
                 histvars, ncalls>>

\* get_status of the leaky limiter: wait_time = get_wait_time()
StatusWait(t) ==
  LET a == "leaky"  b == ref[t]  r == Leaked(b, now) IN
  /\ pc[t] = "st_lwait"
  /\ LockFree(a, b)
  /\ queue' = [queue EXCEPT ![b] = r.queue]
  /\ last_leak' = [last_leak EXCEPT ![b] = r.last]
  /\ ret' = [ret EXCEPT ![t] = RetStatus(@.val, LeakyWait(r.queue), None)]
  /\ Goto(t, "st_age")
  /\ UNCHANGED <<twin, promise>>
  /\ Polled(b, now, FALSE)
  /\ UNCHANGED <<cfgvars, now, tokvars, lock, regvars, call, ref, ok,
                 histvars, ncalls>>

\* time.time() - self.queue[0], or 0.0 for an empty queue
OldestAge(q, t) == IF q = <<>> THEN Float(0, 1) ELSE Float(t - Head(q), 1)

\* get_oldest_request_age, also called last by get_status of the leaky
\* limiter: under the lock, without a leak step
GetOldestRequestAge(t) ==
  LET a == "leaky"  b == ref[t]  g == OldestAge(queue[b], now) IN
  /\ pc[t] \in {"age", "st_age"}
  /\ LockFree(a, b)
  /\ Done(t, IF call[t].op = "get_status"
             THEN RetStatus(ret[t].val, ret[t].wait, g)
             ELSE RetNum(g))
  /\ UNCHANGED <<twin, promise>>
  /\ Polled(b, now, FALSE)
  /\ UNCHANGED <<cfgvars, now, tokvars, leakvars, lock, regvars, call, ref,
                 ok, histvars, ncalls>>

StatusStep(t) ==
  \/ StatusTokens(t)
  \/ StatusTokenWait(t)
  \/ StatusSize(t)
  \/ StatusWait(t)
  \/ GetOldestRequestAge(t)

\* ---- the API server -----------------------------------------------------
\* token_bucket_endpoint / leaky_bucket_endpoint, `if allowed:` the level is
\* read with get_available_tokens() / get_queue_size() and the answer is 200
EndpointAllowed(t) ==
  LET a == call[t].algo  b == ref[t] IN
  /\ limits.server
  /\ pc[t] = "done"
  /\ call[t].op = "allow_request"
  /\ ret[t].allowed
  /\ LockFree(a, b)
  /\ IF a = "token"
     THEN LET r == Refilled(b, now) IN
          /\ tokens' = [tokens EXCEPT ![b] = r.tokens]
          /\ last_refill' = [last_refill EXCEPT ![b] = r.last]
          /\ ret' = [ret EXCEPT ![t] =
                      Response(StatusCode(ret[t].allowed),
                               Round2(Float(r.tokens, RateDen)), None)]
          /\ UNCHANGED <<leakvars, fill>>
     ELSE LET r == Leaked(b, now) IN
          /\ queue' = [queue EXCEPT ![b] = r.queue]
          /\ last_leak' = [last_leak EXCEPT ![b] = r.last]
          /\ ret' = [ret EXCEPT ![t] =
                      Response(StatusCode(ret[t].allowed),
                               Float(Len(r.queue), 1), None)]
          /\ Polled(b, now, TRUE)
          /\ UNCHANGED tokvars
  /\ Goto(t, "responded")
  /\ UNCHANGED <<twin, promise>>
  /\ UNCHANGED <<cfgvars, now, lock, regvars, call, ref, ok, histvars,
                 ncalls>>

\* token_bucket_endpoint / leaky_bucket_endpoint, `else:` the answer is 429
\* with retry_after = round(wait_time, 2)
EndpointDenied(t) ==
  /\ limits.server
  /\ pc[t] = "done"
  /\ call[t].op = "allow_request"
  /\ ~ret[t].allowed
  /\ ret' = [ret EXCEPT ![t] =
              Response(StatusCode(ret[t].allowed), None, Round2(ret[t].val))]
  /\ Goto(t, "responded")
  /\ UNCHANGED scenvars
  /\ UNCHANGED <<cfgvars, now, tokvars, leakvars, lock, regvars, call, ref,
                 ok, histvars, ncalls>>

\* reset: after token_bucket_limiter.bucket.reset() comes
\* leaky_bucket_limiter.bucket.reset()
ResetLeaky(t) ==
  /\ limits.server
  /\ pc[t] = "done"
  /\ call[t].op = "reset"
  /\ call[t].algo = "token"
  /\ call' = [call EXCEPT ![t].algo = "leaky"]
  /\ ref' = [ref EXCEPT ![t] = buckets["leaky"][call[t].client]]
  /\ Goto(t, "reset")
  /\ UNCHANGED scenvars
  /\ UNCHANGED <<cfgvars, now, tokvars, leakvars, lock, regvars, ok, ret,
                 histvars, ncalls>>

\* reset: both buckets are reset and the answer is 200
ResetRespond(t) ==
  /\ limits.server
  /\ pc[t] = "done"
  /\ call[t].op = "reset"
  /\ call[t].algo = "leaky"
  /\ ret' = [ret EXCEPT ![t] = Response(200, None, None)]
  /\ Goto(t, "responded")
  /\ UNCHANGED scenvars
  /\ UNCHANGED <<cfgvars, now, tokvars, leakvars, lock, regvars, call, ref,
                 ok, histvars, ncalls>>

\* ---- specifications -----------------------------------------------------
\* steps of the limiter objects and of reset
SharedStep(t) ==
  \/ Call(t)
  \/ Reset(t)
  \/ RegCheck(t)
  \/ RegInsert(t)
  \/ LookupBucket(t)
  \/ ClientInfo(t)
  \/ ClientInfoRead(t)
  \/ ClientInfoFull(t)

TokenStep(t) ==
  \/ ConsumeRefill(t)
  \/ ConsumeFinish(t)
  \/ GetAvailableTokens(t)
  \/ WaitTime(t)

LeakyStep(t) ==
  \/ AddLeak(t)
  \/ AddFinish(t)
  \/ GetQueueSize(t)
  \/ GetWaitTime(t)

Next == Tick \/ \E t \in Threads : SharedStep(t) \/ TokenStep(t) \/ LeakyStep(t)

NextLeaky == Tick \/ ClockBack \/ \E t \in Threads : SharedStep(t) \/ LeakyStep(t)

\* the limiters under a clock that never goes back
Spec == Init /\ [][Next]_vars

\* the limiters under a wall clock that may be set back
SpecSkew == Init /\ [][Next \/ ClockBack]_vars

\* the leaky limiters alone under a wall clock that may be set back
InitLeaky == Init /\ mode = "leaky"
SpecLeakySkew == InitLeaky /\ [][NextLeaky]_vars

\* one caller and a clock that never goes back
SpecSeq == InitSeq /\ [][Next]_vars

\* one caller fills a larger leaky bucket and polls it while it drains
DrainRun == [threads |-> 1, calls |-> DrainCapacity,
             time |-> LeakTicks(DrainCapacity + 1), costs |-> Costs,
             status |-> FALSE, window |-> FALSE, server |-> FALSE]
InitDrain ==
  InitWith({DrainCapacity}, Rates) /\ mode = "leaky" /\ limits = DrainRun
NextDrain == Tick \/ \E t \in Threads : SharedStep(t) \/ LeakyStep(t)
SpecDrain == InitDrain /\ [][NextDrain]_vars

\* the limiters built from any constructor arguments
SpecConfig == InitConfig /\ [][Next]_vars

\* two threads share one multi-client limiter (ABP)
RegistryRun ==
  [threads |-> 2, calls |-> MaxRegCalls, time |-> MaxTime - 1, costs |-> Costs,
   status |-> FALSE, window |-> FALSE, server |-> FALSE]
InitReg == InitWith(Capacities, Rates) /\ variant = "ABP" /\ limits = RegistryRun

\* a step of a call in progress: allow_request and get_client_info of the
\* limiter and the bucket methods they call
LimiterStep(t) ==
  \/ RegCheck(t)
  \/ RegInsert(t)
  \/ LookupBucket(t)
  \/ ClientInfo(t)
  \/ ClientInfoRead(t)
  \/ ClientInfoFull(t)
  \/ ConsumeRefill(t)
  \/ ConsumeFinish(t)
  \/ WaitTime(t)
  \/ AddLeak(t)
  \/ AddFinish(t)
  \/ GetWaitTime(t)

NextReg == Tick \/ \E t \in Threads : Call(t) \/ LimiterStep(t)
SpecReg == InitReg /\ [][NextReg]_vars

\* a thread that is inside a call is scheduled again
FairSpecReg == SpecReg /\ \A t \in Threads : WF_vars(LimiterStep(t))

\* one caller of the token limiters passes any token count
CostRun ==
  [threads |-> 1, calls |-> MaxSeqCalls, time |-> MaxTime, costs |-> AnyCosts,
   status |-> FALSE, window |-> FALSE, server |-> FALSE]
InitCost == InitWith(Capacities, Rates) /\ mode = "token" /\ limits = CostRun

\* a step of the token limiters and buckets
TokenLimiterStep(t) ==
  \/ Call(t)
  \/ Reset(t)
  \/ RegCheck(t)
  \/ RegInsert(t)
  \/ LookupBucket(t)
  \/ ClientInfo(t)
  \/ ClientInfoRead(t)
  \/ TokenStep(t)

NextCost == Tick \/ \E t \in Threads : TokenLimiterStep(t)
SpecCost == InitCost /\ [][NextCost]_vars

\* two threads call the limiters and buckets, the AP status operations
\* included
StatusRun ==
  [threads |-> 2, calls |-> MaxCalls, time |-> MaxTime, costs |-> Costs,
   status |-> TRUE, window |-> FALSE, server |-> FALSE]
InitStatus == InitWith(Capacities, Rates) /\ limits = StatusRun
NextStatus == Next \/ \E t \in Threads : StatusStep(t)
SpecStatus == InitStatus /\ [][NextStatus]_vars

\* concurrent callers, with what each bucket admits recorded tick by tick
WindowRun ==
  [threads |-> 2, calls |-> MaxCalls, time |-> MaxTime, costs |-> Costs,
   status |-> FALSE, window |-> TRUE, server |-> FALSE]
SpecWindow ==
  InitWith(Capacities, Rates) /\ limits = WindowRun /\ [][Next]_vars

\* the API server: one token limiter and one leaky limiter of the RL
\* classes, and request handlers running in concurrent threads
ServerRun ==
  [threads |-> 2, calls |-> MaxRegCalls, time |-> MaxTime, costs |-> {1},
   status |-> FALSE, window |-> FALSE, server |-> TRUE]
InitServer ==
  /\ InitModes({"both"}, Capacities, Rates)
  /\ variant = "RL"
  /\ limits = ServerRun

\* a step of a request handler and of the limiter calls it makes
HandlerStep(t) ==
  \/ Call(t)
  \/ Reset(t)
  \/ ConsumeRefill(t)
  \/ ConsumeFinish(t)
  \/ GetAvailableTokens(t)
  \/ AddLeak(t)
  \/ AddFinish(t)
  \/ GetWaitTime(t)
  \/ EndpointAllowed(t)
  \/ EndpointDenied(t)
  \/ ResetLeaky(t)
  \/ ResetRespond(t)

NextServer == Tick \/ \E t \in Threads : HandlerStep(t)
SpecServer == InitServer /\ [][NextServer]_vars

\* ---- properties ---------------------------------------------------------
TokenBuckets == 1..nbuckets["token"]
LeakyBuckets == 1..nbuckets["leaky"]
Returned(t) == pc[t] = "done"
TokenDecision(t) ==
  /\ Returned(t)
  /\ call[t].algo = "token"
  /\ call[t].op \in {"consume", "allow_request"}
LeakyDecision(t) ==
  /\ Returned(t)
  /\ call[t].algo = "leaky"
  /\ call[t].op \in {"add_request", "allow_request"}

\* C1: in the RL and ABP token buckets, under a clock that never goes back
\* and costs >= 1, the token level stays within 0 <= tokens <= capacity in
\* every state, whatever the calls and their interleaving.
C1_TokenCapacityBound ==
  (built = "ok" /\ variant \in {"RL", "ABP"}) =>
    \A b \in TokenBuckets : 0 <= tokens[b] /\ tokens[b] <= CapUnits

\* an admitted request emptied a bucket that had been refilled up to its
\* capacity at a later clock reading
C1_Witness ==
  /\ variant \in {"RL", "ABP"}
  /\ \E t \in Threads :
       /\ TokenDecision(t)
       /\ ret[t].allowed
       /\ tokens[ref[t]] = 0
       /\ last_refill[ref[t]] > 0

\* C2: in every variant and under any clock readings, forward or backward,
\* the queue of a leaky bucket never holds more than capacity entries.
C2_QueueCapacityBound ==
  built = "ok" =>
    \A b \in LeakyBuckets : 0 <= Len(queue[b]) /\ Len(queue[b]) <= capacity

\* a request was denied by a full queue after the clock had been set back
C2_Witness ==
  \E t \in Threads :
    /\ LeakyDecision(t)
    /\ ~ret[t].allowed
    /\ Len(queue[ref[t]]) = capacity
    /\ now < last_leak[ref[t]]

\* C3: while the clock stands still, of the n unit-cost consume /
\* add_request calls completed on one bucket exactly min(n, available) were
\* admitted, available being the whole tokens or free slots at the start.
C3_NoOverAdmission ==
  \A a \in Algos, c \in Clients :
    epoch[a][c].open =>
      epoch[a][c].adm = Min(epoch[a][c].n, epoch[a][c].level)

\* two calls on one bucket completed at one clock reading, one admitted and
\* one denied
C3_Witness ==
  \E a \in Algos, c \in Clients :
    /\ epoch[a][c].open
    /\ epoch[a][c].n = 2
    /\ epoch[a][c].adm = 1
    /\ \A t \in Threads : Returned(t) /\ call[t].client = c

\* C4: in the ABP limiters one bucket at most is ever constructed for a
\* client, every thread serving that client works on the registered bucket,
\* and the cost admitted for the client before the clock moves after its
\* first use is at most capacity.
C4_RaceFreeFirstUse ==
  variant = "ABP" =>
    \A a \in Algos, c \in Clients :
      /\ Cardinality({b \in BucketIds : owner[a][b] = c}) <= 1
      /\ \A t \in Threads :
           (call[t].op # "none" /\ call[t].algo = a /\ call[t].client = c
              /\ ref[t] # 0) => ref[t] = buckets[a][c]
      /\ firstuse[a][c].fresh => firstuse[a][c].adm <= capacity

\* two threads made the first requests of one client at one clock reading:
\* one was admitted, the other denied by the shared bucket
C4_Witness ==
  /\ variant = "ABP"
  /\ \E a \in Algos, c \in Clients :
       /\ firstuse[a][c].fresh
       /\ firstuse[a][c].adm = capacity
       /\ \A t \in Threads :
            /\ Returned(t)
            /\ call[t].op = "allow_request"
            /\ call[t].algo = a
            /\ call[t].client = c
            /\ call[t].cost = 1
       /\ \E t \in Threads : ~ret[t].allowed
       /\ \E t \in Threads : ret[t].allowed

\* the state of a client's bucket in the limiter's dict
BucketState(a, c) ==
  LET b == buckets[a][c] IN
  IF b = 0
  THEN [present |-> FALSE, tokens |-> 0, last_refill |-> 0, queue |-> <<>>,
        last_leak |-> 0]
  ELSE [present |-> TRUE, tokens |-> tokens[b], last_refill |-> last_refill[b],
        queue |-> queue[b], last_leak |-> last_leak[b]]

\* the client a step of thread t is made for
Served(t) == IF call[t].op = "none" \/ pc[t] = "done" THEN call'[t].client
             ELSE call[t].client

\* C5: in the ABP limiters a step of an allow_request or get_client_info
\* call for one client leaves the bucket of every other client as it was.
C5_PerClientIsolation ==
  [][variant = "ABP" =>
       \A t \in Threads :
         pc'[t] # pc[t] =>
           \A a \in Algos, c \in Clients \ {Served(t)} :
             BucketState(a, c)' = BucketState(a, c)]_vars

\* client A was denied while client B owns a bucket
C5_Witness ==
  /\ variant = "ABP"
  /\ \E t \in Threads :
       /\ Returned(t)
       /\ call[t].op = "allow_request"
       /\ call[t].client = "A"
       /\ ~ret[t].allowed
       /\ buckets[call[t].algo]["B"] # 0

\* C6: an allow_request of the RL and ABP limiters returns a tuple whose
\* second component is None when allowed and a number when denied.
C6_DecisionContract ==
  \A t \in Threads :
    (Returned(t) /\ call[t].op = "allow_request"
       /\ variant \in {"RL", "ABP"}) =>
      /\ ret[t].kind = "pair"
      /\ ret[t].allowed => ret[t].val = None
      /\ ~ret[t].allowed => ret[t].val.tag = "float"

\* a denied allow_request returned
C6_Witness ==
  /\ variant \in {"RL", "ABP"}
  /\ \E t \in Threads :
       /\ Returned(t)
       /\ call[t].op = "allow_request"
       /\ ~ret[t].allowed
       /\ ret[t].val.tag = "float"

\* C7: an ABP allow_request whose cost exceeds the capacity is denied with
\* a CostExceedsCapacity condition and not with a finite retry-after.
C7_OversizedCostPermanent ==
  \A t \in Threads :
    (Returned(t) /\ variant = "ABP" /\ call[t].op = "allow_request"
       /\ call[t].algo = "token" /\ call[t].cost > capacity) =>
      /\ ~ret[t].allowed
      /\ ret[t].val.tag = "CostExceedsCapacity"

\* C8: a consume whose cost exceeds the capacity returns False.
C8_OversizedNeverAdmitted ==
  \A t \in Threads :
    (TokenDecision(t) /\ call[t].cost > capacity) => ~ret[t].allowed

\* C9: no call is ever decided by a limiter whose capacity or rate is not
\* positive, since its construction raised.
C9_InvalidConfigFailsFast ==
  (\E t \in Threads : Returned(t) /\ call[t].op = "allow_request") =>
    (capacity > 0 /\ rate > 0)

\* the steps in which thread t advances its bucket to the clock
Advances(t) ==
  /\ pc'[t] # pc[t]
  /\ pc[t] \in {"consume", "status", "wait", "add", "size", "lwait",
                "info_read", "info_full"}

\* C10: an advance step that reads a clock not later than the bucket's
\* last-update timestamp leaves the level / queue and the timestamp as they
\* were, in every variant.
C10_ClockRegressionNoOp ==
  [][\A t \in Threads :
       Advances(t) =>
         IF call[t].algo = "token"
         THEN now <= last_refill[ref[t]] =>
                /\ tokens'[ref[t]] = tokens[ref[t]]
                /\ last_refill'[ref[t]] = last_refill[ref[t]]
         ELSE now <= last_leak[ref[t]] =>
                /\ queue'[ref[t]] = queue[ref[t]]
                /\ last_leak'[ref[t]] = last_leak[ref[t]]]_vars

\* a returned allow_request of a tuple-returning token limiter, made by a
\* single caller in the current clock epoch of a bucket that began it full
BurstCall(t) ==
  /\ limits.threads = 1
  /\ variant \in {"RL", "ABP"}
  /\ Returned(t)
  /\ call[t].op = "allow_request"
  /\ call[t].algo = "token"
  /\ call[t].cost = 1
  /\ epoch["token"][call[t].client].open
  /\ epoch["token"][call[t].client].level = capacity
  /\ epoch["token"][call[t].client].n >= 1

\* the denied call was told to retry after k / refill_rate seconds
RetryIs(t, k) ==
  /\ ret[t].kind = "pair"
  /\ ret[t].val.tag = "float"
  /\ ret[t].val.num * rate = k * RateDen * ret[t].val.den

\* C11 as stated: of a run of immediate allow_request calls on a full token
\* bucket of capacity C the first C are admitted and the later ones denied,
\* call C + 1 with retry-after 1 / rate and call C + 2 with 2 / rate.
C11_TokenBurst ==
  \A t \in Threads :
    BurstCall(t) =>
      LET n == epoch["token"][call[t].client].n IN
      /\ ret[t].allowed <=> n <= capacity
      /\ n = capacity + 1 => RetryIs(t, 1)
      /\ n = capacity + 2 => RetryIs(t, 2)

\* C11 amended: the first C calls are admitted and every later call of the
\* run is denied with the same retry-after 1 / rate, a denial leaving the
\* empty level as it is.
C11_TokenBurstAmended ==
  \A t \in Threads :
    BurstCall(t) =>
      LET n == epoch["token"][call[t].client].n IN
      /\ ret[t].allowed <=> n <= capacity
      /\ n > capacity => RetryIs(t, 1)

\* the second call after the burst used up a full bucket was denied
C11_Witness ==
  \E t \in Threads :
    /\ BurstCall(t)
    /\ epoch["token"][call[t].client].n = capacity + 2
    /\ ~ret[t].allowed
    /\ RetryIs(t, 1)

\* the step in which thread t is handed the wait time of a token bucket
WaitReported(t) ==
  /\ pc[t] \in {"wait", "status"}
  /\ pc'[t] = "done"
  /\ ret'[t].kind \in {"num", "pair"}
  /\ pc[t] = "status" => call[t].op = "allow_request"

\* C12: the wait time a token bucket reports for cost c is computed on the
\* level advanced to the current clock, the level a consume would test: it
\* is 0 when level >= c and (c - level) / refill_rate otherwise.
C12_TokenWaitTime ==
  [][\A t \in Threads :
       WaitReported(t) =>
         LET b == ref[t]
             level == tokens'[b]
             w == ret'[t].val
         IN  /\ level = Refilled(b, now).tokens
             /\ w.tag = "float"
             /\ level >= CostUnits(call[t].cost) => w.num = 0
             /\ level < CostUnits(call[t].cost) =>
                  w.num * rate = (CostUnits(call[t].cost) - level) * w.den]_vars

\* a wait time was reported for a bucket holding a part of the cost
C12_Witness ==
  \E t \in Threads :
    /\ Returned(t)
    /\ call[t].algo = "token"
    /\ call[t].op \in {"wait_time", "allow_request"}
    /\ ret[t].kind \in {"num", "pair"}
    /\ ret[t].val.tag = "float"
    /\ ret[t].val.num > 0
    /\ tokens[ref[t]] > 0
    /\ ret[t].val.num * rate = (CostUnits(call[t].cost) - tokens[ref[t]])
                                 * ret[t].val.den

\* the step in which thread t is handed the wait time of a leaky bucket
LeakyWaitReported(t) ==
  /\ pc[t] = "lwait"
  /\ pc'[t] = "done"
  /\ ret'[t].kind \in {"num", "pair"}

\* C13: in every variant get_wait_time, on the queue advanced to the current
\* clock, returns 0 while the queue has a free slot and len(queue) /
\* leak_rate when it is full.
C13_LeakyWaitTime ==
  [][\A t \in Threads :
       LeakyWaitReported(t) =>
         LET n == Len(queue'[ref[t]])
             w == ret'[t].val
         IN  /\ w.tag = "float"
             /\ n < capacity => w.num = 0
             /\ n >= capacity => w.num * rate = n * RateDen * w.den]_vars

\* a returned add_request / allow_request made by a single caller in the
\* current clock epoch of a leaky bucket that began it empty
LeakyBurstCall(t) ==
  /\ limits.threads = 1
  /\ LeakyDecision(t)
  /\ epoch["leaky"][call[t].client].open
  /\ epoch["leaky"][call[t].client].level = capacity
  /\ epoch["leaky"][call[t].client].n >= 1

\* C14: of a run of immediate add_request / allow_request calls on an
\* empty leaky bucket of capacity C exactly the first C are admitted, and
\* after each denial the queue holds C entries.
C14_LeakyBurst ==
  \A t \in Threads :
    LeakyBurstCall(t) =>
      LET n == epoch["leaky"][call[t].client].n IN
      /\ ret[t].allowed <=> n <= capacity
      /\ Len(queue[ref[t]]) = Min(n, capacity)

\* the second call after the burst filled the queue was denied
C14_Witness ==
  \E t \in Threads :
    /\ LeakyBurstCall(t)
    /\ epoch["leaky"][call[t].client].n = capacity + 2
    /\ ~ret[t].allowed
    /\ Len(queue[ref[t]]) = capacity

\* the step in which thread t is handed the queue size of a leaky bucket
SizeReported(t) ==
  /\ pc'[t] # pc[t]
  /\ \/ pc[t] = "size"
     \/ pc[t] = "info_read" /\ call[t].algo = "leaky"

\* C15: a leaky bucket filled to capacity C at t0 and sent no add_request
\* since reports queue size 0 at every observation made at or after
\* t0 + C / rate + 1 / rate, however it was polled in between.
C15_ConstantRateDrain ==
  [][\A t \in Threads :
       SizeReported(t) =>
         LET f == fill[ref[t]] IN
         (f.on /\ (now - f.at) * rate >= LeakTicks(capacity + 1)) =>
           Len(queue'[ref[t]]) = 0]_vars

\* C16: the queue length a leaky bucket shows at the current clock is the
\* one it would show had none of the earlier get_queue_size, get_wait_time
\* and is_full calls been made.
C16_LeakyPollingNeutral ==
  built = "ok" =>
    \A b \in LeakyBuckets :
      Len(Leaked(b, now).queue) = Len(TwinLeaked(b, now).queue)

\* the step in which thread t reads the level of a token bucket
LevelReported(t) ==
  /\ pc'[t] # pc[t]
  /\ \/ pc[t] \in {"status", "wait"}
     \/ pc[t] = "info_read" /\ call[t].algo = "token"

\* C17: under a clock that never goes back the level a token bucket shows
\* at the current clock is the one it would show had no status call been
\* made before, and a status call at the clock reading of the last advance
\* leaves the level as it is.
C17_TokenPollingNeutral ==
  [][/\ \A b \in TokenBuckets' :
          Refilled(b, now)'.tokens = TwinRefilled(b, now)'.tokens
     /\ \A t \in Threads :
          (LevelReported(t) /\ last_refill[ref[t]] = now) =>
            tokens'[ref[t]] = tokens[ref[t]]]_vars

\* a status call advanced a bucket below capacity at an earlier clock
\* reading; its twin was never advanced and shows the same level now
C17_Witness ==
  \E b \in TokenBuckets :
    /\ twin[b].last_refill < last_refill[b]
    /\ last_refill[b] < now
    /\ tokens[b] < CapUnits
    /\ twin[b].tokens < tokens[b]
    /\ Refilled(b, now).tokens = TwinRefilled(b, now).tokens

\* the step is the `self.tokens -= tokens` of a successful consume on b
Consumed(b) ==
  \E t \in Threads :
    /\ call[t].algo = "token"
    /\ pc[t] = "finish"
    /\ pc'[t] # pc[t]
    /\ ok[t]
    /\ ref[t] = b

\* C18: under a clock that never goes back the level of an RL or AP token
\* bucket never falls except by a successful consume, and a level that has
\* reached capacity stays at capacity until the next successful consume.
C18_MonotonicRefill ==
  [][(variant \in {"RL", "AP"}) =>
       (\A b \in TokenBuckets :
          (~Consumed(b)) =>
            ((tokens'[b] >= tokens[b]) /\
             ((tokens[b] = CapUnits) => (tokens'[b] = CapUnits))))]_vars

\* the wait a caller was told for bucket b has passed
WaitOver(b) ==
  /\ promise[b].told
  /\ (now - promise[b].at) * promise[b].per >= promise[b].wait

\* capacity / refill_rate seconds have passed since bucket b was emptied
RefillOver(b) ==
  /\ promise[b].empty
  /\ (now - promise[b].since) * rate >= CapUnits

\* thread t passes the level test of consume in this step
Retried(t) == pc[t] = "consume" /\ pc'[t] = "finish"

\* C19: once capacity / refill_rate seconds have passed since a token bucket
\* was emptied, with no consumption since, its level is exactly capacity and
\* the next consume of at most capacity tokens is admitted; a consume of at
\* most capacity tokens made after the wait time a caller was told for that
\* many tokens, with no consumption since, is admitted.
C19_TokenRecovery ==
  [][/\ \A b \in TokenBuckets :
          RefillOver(b) => (Refilled(b, now).tokens = CapUnits)
     /\ \A t \in Threads :
          (Retried(t) /\ call[t].cost <= capacity) =>
            /\ RefillOver(ref[t]) =>
                  (tokens'[ref[t]] = CapUnits /\ ok'[t])
            /\ (WaitOver(ref[t]) /\ call[t].cost <= promise[ref[t]].cost) =>
                  ok'[t]]_vars

\* an allow_request was denied on an emptied RL bucket and told a positive
\* wait; the retry made exactly that long after finds the bucket full again
\* and is about to be admitted
C19_Witness ==
  \E t \in Threads :
    /\ variant = "RL"
    /\ pc[t] = "finish"
    /\ call[t].op = "allow_request"
    /\ ok[t]
    /\ tokens[ref[t]] = CapUnits
    /\ promise[ref[t]].empty
    /\ promise[ref[t]].told
    /\ promise[ref[t]].wait > 0
    /\ (now - promise[ref[t]].at) * promise[ref[t]].per = promise[ref[t]].wait
    /\ (now - promise[ref[t]].since) * rate = CapUnits

\* leaky bucket b was filled to capacity and no call has reached it for
\* capacity / leak_rate seconds or more
IdleDrained(b) ==
  /\ fill[b].on
  /\ fill[b].idle
  /\ (now - fill[b].at) * rate >= LeakTicks(capacity)

\* thread t passes the room test of add_request in this step
AddTested(t) == pc[t] = "add" /\ pc'[t] = "add_finish"

\* C20: the first get_queue_size made on a leaky bucket that was filled to
\* capacity C and then left without any call for C / leak_rate seconds or
\* more returns 0, and the next C add_request calls are all admitted.
C20_LeakyDrainAfterIdle ==
  [][\A t \in Threads :
       /\ (SizeReported(t) /\ IdleDrained(ref[t])) =>
            /\ queue'[ref[t]] = <<>>
            /\ ret'[t].val = Float(0, 1)
       /\ (AddTested(t) /\ fill[ref[t]].owed > 0) => ok'[t]]_vars

\* an RL bucket was filled, left alone for capacity / leak_rate seconds and
\* reported empty by get_queue_size; the add_request made next finds room
C20_Witness ==
  \E t \in Threads :
    /\ variant = "RL"
    /\ pc[t] = "add_finish"
    /\ ok[t]
    /\ fill[ref[t]].owed = capacity
    /\ (now - fill[ref[t]].at) * rate >= LeakTicks(capacity)

\* the thread that holds the lock thread t has to take for its next step:
\* the limiter lock at `with self.lock` of allow_request / get_client_info,
\* the bucket lock at the `with self.lock` of a bucket method; 0 if it is
\* free or t needs none
Holder(t) ==
  IF pc[t] \in {"reg_check", "info"} THEN reglock[call[t].algo]
  ELSE IF pc[t] \in {"consume", "wait", "add", "lwait", "info_read",
                     "info_full"}
  THEN lock[call[t].algo][ref[t]]
  ELSE 0

\* thread u is inside a bucket method or about to call one
InBucketSection(u) ==
  pc[u] \in {"consume", "finish", "wait", "add", "add_finish", "lwait",
             "info_read", "info_full"}

\* C21: in the multi-client limiters a thread calling allow_request for one
\* client is never blocked on a lock held by a thread that is executing, or
\* waiting to enter, the bucket critical section of another client.
C21_ClientsDoNotSerialize ==
  variant = "ABP" =>
    \A t \in Threads, u \in Threads :
      (/\ call[t].op = "allow_request"
       /\ u # t
       /\ Holder(t) = u
       /\ InBucketSection(u)) => call[u].client = call[t].client

\* thread t is inside a public call
InCall(t) == pc[t] \notin {"idle", "done"}

\* thread t holds the lock of some bucket
HoldsBucket(t) == \E a \in Algos, b \in BucketIds : lock[a][b] = t

\* the limiter lock is only ever taken by a thread that holds no bucket
\* lock, and a bucket lock is held only inside consume / add_request
LockOrder ==
  \A t \in Threads :
    HoldsBucket(t) =>
      /\ pc[t] \in {"finish", "add_finish"}
      /\ \A a \in Algos : reglock[a] # t

\* C22: threads calling allow_request and get_client_info on one
\* multi-client limiter take the limiter lock only while holding no bucket
\* lock, and under fair scheduling every call that was started returns.
C22_EveryCallReturns ==
  /\ []LockOrder
  /\ \A t \in Threads : InCall(t) ~> Returned(t)

\* get_client_info holds the limiter lock and needs the lock of a bucket
\* that another thread holds inside consume / add_request
C22_Witness ==
  \E t \in Threads, u \in Threads :
    /\ variant = "ABP"
    /\ u # t
    /\ pc[u] = "info_read"
    /\ reglock[call[u].algo] = u
    /\ Holder(u) = t
    /\ HoldsBucket(t)

\* C23: once a client id has a bucket in the map of a multi-client limiter
\* it keeps that same bucket in every later state, so the registered ids
\* never shrink, and two different client ids never map to one bucket.
C23_RegistryPermanent ==
  [][variant = "ABP" =>
       (\A a \in Algos, c \in Clients :
          (buckets[a][c] # 0) =>
            ((buckets'[a][c] = buckets[a][c]) /\
             (\A d \in Clients \ {c} : buckets[a][d] # buckets[a][c])))]_vars

\* both clients are registered, each with a bucket of its own, and a thread
\* serving a client that is already registered found it in the map
C23_Witness ==
  /\ variant = "ABP"
  /\ \E a \in Algos, t \in Threads :
       /\ \A c \in Clients : buckets[a][c] # 0
       /\ pc[t] = "reg_insert"
       /\ call[t].algo = a
       /\ ~ok[t]

\* the step in which thread t runs reset on its bucket
ResetDone(t) == pc[t] = "reset" /\ pc'[t] = "done"

\* another thread is between the advance step and the decision of a
\* consume / add_request on the bucket thread t works on
MidDecision(t) ==
  \E u \in Threads \ {t} :
    /\ pc[u] \in {"finish", "add_finish"}
    /\ call[u].algo = call[t].algo
    /\ ref[u] = ref[t]

\* C24: whatever the state and the clock reading, reset leaves a token
\* bucket at capacity (a leaky bucket empty) with its timestamp at the clock
\* of the reset, an observation at that clock reading reports capacity
\* tokens (queue size 0), and no reset runs while another thread is inside
\* consume / add_request on the same bucket.
C24_ResetPostcondition ==
  [][\A t \in Threads :
       ResetDone(t) =>
         ((~MidDecision(t)) /\
          (IF call[t].algo = "token"
           THEN /\ tokens'[ref[t]] = CapUnits
                /\ last_refill'[ref[t]] = now
                /\ Refilled(ref[t], now)'.tokens = CapUnits
           ELSE /\ queue'[ref[t]] = <<>>
                /\ last_leak'[ref[t]] = now
                /\ Leaked(ref[t], now)'.queue = <<>>))]_vars

\* a consume was admitted and a reset made after it, at a later clock
\* reading, has filled the bucket again before the refill could
C24_Witness ==
  \E t \in Threads, u \in Threads :
    /\ variant = "RL"
    /\ pc[t] = "done" /\ call[t].op = "reset" /\ call[t].algo = "token"
    /\ pc[u] = "done" /\ call[u].op = "consume" /\ ret[u].allowed
    /\ now = 1
    /\ tokens[ref[t]] = CapUnits
    /\ last_refill[ref[t]] = now
    /\ twin[ref[t]].tokens = CapUnits

\* the step in which thread t leaves consume with its decision
Decided(t) == pc[t] = "finish" /\ pc'[t] # "finish"

\* the level of bucket b advanced to the current clock
Advanced(b) == Min(CapUnits, tokens[b] + (now - last_refill[b]) * rate)

\* what the decision of thread t takes from the bucket
Debit(t) == IF ok[t] THEN call[t].cost * RateDen ELSE 0

\* C25: in the RL and ABP token buckets consume(cost) first advances the
\* bucket to the current clock, succeeds exactly when the advanced level is
\* at least cost, and on success leaves the advanced level less exactly
\* cost; a direct consume call returns that outcome.
C25_ConsumeDecision ==
  [][(variant \in {"RL", "ABP"}) =>
       (\A t \in Threads :
          (Retried(t) =>
             ((tokens'[ref[t]] = Advanced(ref[t])) /\
              (ok'[t] <=> (Advanced(ref[t]) >= call[t].cost * RateDen))))
          /\
          (Decided(t) =>
             ((tokens'[ref[t]] = tokens[ref[t]] - Debit(t)) /\
              ((ok[t] \/ call[t].op = "consume") =>
                 (ret'[t].allowed = ok[t])))))]_vars

\* a weighted consume emptied the bucket, the bucket was advanced to
\* capacity at a later clock reading and a second weighted consume is about
\* to debit its full cost
C25_Witness ==
  \E t \in Threads :
    /\ variant \in {"RL", "ABP"}
    /\ pc[t] = "finish"
    /\ ok[t]
    /\ call[t].cost > 1
    /\ promise[ref[t]].empty
    /\ last_refill[ref[t]] = now
    /\ tokens[ref[t]] = call[t].cost * RateDen

\* the step in which thread t leaves add_request with its decision
AddDecided(t) == pc[t] = "add_finish" /\ pc'[t] # "add_finish"

\* C26: a consume that is denied leaves the token level as the advance
\* step left it, and an add_request that is denied leaves the queue, its
\* entries and their order, as the leak step left it: a denial takes no
\* token, occupies no slot and evicts no entry.
C26_DenialFrame ==
  [][\A t \in Threads :
       /\ (Decided(t) /\ ~ok[t]) =>
            /\ tokens' = tokens
            /\ last_refill' = last_refill
            /\ call[t].op = "consume" => ret'[t] = RetBool(FALSE)
       /\ (AddDecided(t) /\ ~ok[t]) =>
            /\ queue' = queue
            /\ last_leak' = last_leak
            /\ call[t].op = "add_request" => ret'[t] = RetBool(FALSE)]_vars

\* an add_request was denied by the full queue of an AP bucket, whose
\* deque would evict its oldest entry on an append, and the entry queued
\* at an earlier clock reading is still there
C26_Witness ==
  \E t \in Threads :
    /\ variant = "AP"
    /\ LeakyDecision(t)
    /\ call[t].op = "add_request"
    /\ ~ret[t].allowed
    /\ Len(queue[ref[t]]) = capacity
    /\ Head(queue[ref[t]]) < now

\* C27: whenever allow_request returns allowed = False the retry-after it
\* returns is greater than 0, whatever the other threads do and however
\* much time passes between the steps of the call.
C27_PositiveRetryAfter ==
  \A t \in Threads :
    (/\ Returned(t)
     /\ call[t].op = "allow_request"
     /\ ret[t].kind = "pair"
     /\ ~ret[t].allowed) =>
      (ret[t].val.tag = "float" /\ ret[t].val.num > 0)

\* C28: in the RL and ABP token buckets a consume / allow_request with
\* cost <= 0 never raises the token level and never leaves it above
\* capacity.
C28_NoMinting ==
  [][(variant \in {"RL", "ABP"}) =>
       (\A t \in Threads :
          (Decided(t) /\ call[t].cost <= 0) =>
            ((tokens'[ref[t]] <= tokens[ref[t]]) /\
             (tokens'[ref[t]] <= CapUnits)))]_vars

\* C29: a consume made at a clock reading that is not before the bucket's
\* last-refill timestamp leaves that timestamp at the clock reading, whether
\* it is then admitted or denied, and the decision does not move it again.
C29_LastRefillFollows ==
  [][\A t \in Threads :
       /\ (Retried(t) /\ now >= last_refill[ref[t]]) =>
            last_refill'[ref[t]] = now
       /\ Decided(t) => last_refill' = last_refill]_vars

\* a consume was denied at a later clock reading by a bucket it found
\* partly refilled, and the timestamp of the bucket is that clock reading
C29_Witness ==
  \E t \in Threads :
    /\ variant \in {"RL", "ABP"}
    /\ TokenDecision(t)
    /\ ~ret[t].allowed
    /\ call[t].cost = 1
    /\ now > 0
    /\ last_refill[ref[t]] = now
    /\ tokens[ref[t]] > 0

\* the step in which thread t runs the leak step of its leaky bucket
LeakStepOf(t) ==
  /\ call[t].algo = "leaky"
  /\ pc[t] \in {"add", "size", "lwait", "info_read", "info_full"}
  /\ pc'[t] # pc[t]

\* floor(elapsed * leak_rate) for bucket b at the current clock
DrainedNow(b) == ((now - last_leak[b]) * rate) \div RateDen

\* the queue without its n oldest entries
WithoutOldest(q, n) == SubSeq(q, n + 1, Len(q))

\* the timestamps of q do not decrease from front to back
Ordered(q) == \A i \in 1..Len(q), j \in 1..Len(q) : i <= j => q[i] <= q[j]

\* C30: under a clock that never goes back the leak step removes exactly
\* min(floor(elapsed * leak_rate), len(queue)) entries, all from the front,
\* and keeps the others in their order; the timestamps stored in a queue
\* never decrease from front to back.
C30_LeakRemovesOldest ==
  [][/\ \A b \in LeakyBuckets : Ordered(queue[b])
     /\ \A t \in Threads :
          LeakStepOf(t) =>
            queue'[ref[t]] =
              WithoutOldest(queue[ref[t]],
                            Min(DrainedNow(ref[t]), Len(queue[ref[t]])))]_vars

\* a status call drained the oldest entry of a queue and left two entries
\* admitted at different clock readings, the older one in front
C30_Witness ==
  \E t \in Threads :
    /\ Returned(t)
    /\ call[t].op \in {"get_queue_size", "get_client_info"}
    /\ ref[t] \in LeakyBuckets
    /\ Len(queue[ref[t]]) >= 2
    /\ Head(queue[ref[t]]) < queue[ref[t]][Len(queue[ref[t]])]
    /\ Len(twin[ref[t]].queue) > Len(queue[ref[t]])
    /\ queue[ref[t]] =
         WithoutOldest(twin[ref[t]].queue,
                       Len(twin[ref[t]].queue) - Len(queue[ref[t]]))

\* floor(leak_rate * T), T the time since bucket b was filled to capacity
EarnedSince(b) == ((now - fill[b].at) * rate) \div RateDen

\* C31: the leak step moves the last-leak timestamp only when
\* floor(elapsed * leak_rate) >= 1, and a queue that was filled to capacity
\* and has not run empty since has leaked, at every leak step made a time T
\* after it was filled, at least floor(leak_rate * T) - 1 entries, whatever
\* the times of the calls.
C31_FractionKept ==
  [][\A t \in Threads :
       LeakStepOf(t) =>
         /\ last_leak'[ref[t]] # last_leak[ref[t]] => DrainedNow(ref[t]) >= 1
         /\ (/\ fill[ref[t]].on
             /\ queue[ref[t]] # <<>>
             /\ now >= last_leak[ref[t]]
             /\ DrainedNow(ref[t]) <= Len(queue[ref[t]])) =>
              capacity - Len(queue'[ref[t]]) >= EarnedSince(ref[t]) - 1]_vars

\* the step in which get_oldest_request_age hands thread t its result
AgeReported(t) == pc[t] \in {"age", "st_age"} /\ pc'[t] = "done"

\* C32: get_oldest_request_age returns 0 for an empty queue and otherwise
\* now minus the timestamp of the front entry of the queue advanced to now:
\* never the age of an entry that a get_queue_size made at the same clock
\* reading would have leaked.
C32_OldestAgeFresh ==
  [][\A t \in Threads :
       AgeReported(t) =>
         (IF call[t].op = "get_status" THEN ret'[t].age ELSE ret'[t].val)
           = OldestAge(Leaked(ref[t], now).queue, now)]_vars

\* C33: a status query first advances its bucket to the current clock and
\* reports the advanced level; it admits no request, takes no token and
\* queues no entry, and leaves capacity and rate as configured. The step
\* checked is the one in which get_available_tokens / get_queue_size,
\* called directly, by get_client_info or by get_status, reads the level.
C33_StatusSnapshot ==
  [][\A t \in Threads :
       (/\ pc'[t] # pc[t]
        /\ \/ pc[t] \in {"status", "size"} /\ call[t].op # "allow_request"
           \/ pc[t] \in {"info_read", "st_tokens", "st_size"}) =>
         /\ UNCHANGED <<cfgvars, histvars, buckets>>
         /\ IF call[t].algo = "token"
            THEN /\ tokens[ref[t]] <= CapUnits =>
                      tokens'[ref[t]] = Advanced(ref[t])
                 /\ ret'[t].val = Float(tokens'[ref[t]], RateDen)
                 /\ UNCHANGED queue
            ELSE /\ queue'[ref[t]] =
                      WithoutOldest(queue[ref[t]],
                                    Min(DrainedNow(ref[t]),
                                        Len(queue[ref[t]])))
                 /\ ret'[t].val = Float(Len(queue'[ref[t]]), 1)
                 /\ UNCHANGED tokens]_vars

\* get_status of the AP token limiter has just read the level of a bucket
\* that an earlier request emptied and the advance has partly refilled
C33_Witness ==
  \E t \in Threads :
    /\ call[t].op = "get_status"
    /\ pc[t] = "st_twait"
    /\ last_refill[ref[t]] = now
    /\ now > 0
    /\ tokens[ref[t]] > 0
    /\ tokens[ref[t]] < CapUnits
    /\ ret[t].val = Float(tokens[ref[t]], RateDen)

\* C34: every dict returned by the leaky get_client_info has is_full equal
\* to queue_size >= capacity, and every dict returned by get_status has a
\* positive wait_time_seconds exactly when the queue is at capacity (token
\* variant: exactly when less than one token is available), whatever other
\* threads do on the same bucket meanwhile.
C34_SnapshotConsistent ==
  \A t \in Threads :
    Returned(t) =>
      CASE ret[t].kind = "status" /\ call[t].algo = "leaky" ->
             (ret[t].wait.num > 0) <=> (ret[t].val.num = capacity)
        [] ret[t].kind = "status" /\ call[t].algo = "token" ->
             (ret[t].wait.num > 0) <=> (ret[t].val.num < RateDen)
        [] ret[t].kind = "info" /\ call[t].algo = "leaky" ->
             ret[t].allowed <=> (ret[t].val.num >= capacity)
        [] OTHER -> TRUE

\* what a bucket admitted in the clock ticks i..j of its record s
RECURSIVE AdmittedIn(_, _, _)
AdmittedIn(s, i, j) == IF i > j THEN 0 ELSE s[i] + AdmittedIn(s, i + 1, j)

\* the intervals [i, j] of clock ticks of the record s
Intervals(s) == {w \in (1..Len(s)) \X (1..Len(s)) : w[1] <= w[2]}

C37_UnseenClient ==
  [][\A t \in Threads :
       /\ (/\ pc[t] = "info" /\ pc'[t] = "done"
           /\ buckets[call[t].algo][call[t].client] = 0) =>
            (/\ UNCHANGED <<buckets, nbuckets, owner, tokvars, leakvars>>
             /\ ret'[t].val = IF call[t].algo = "token"
                              THEN Float(capacity * RateDen, RateDen)
                              ELSE Float(0, 1)
             /\ ~ret'[t].allowed)
       /\ (/\ call[t].op = "allow_request"
           /\ pc[t] \in {"consume", "add"} /\ pc'[t] # pc[t]
           /\ firstuse[call[t].algo][call[t].client].adm = 0) =>
            (IF call[t].algo = "token"
             THEN Float(tokens'[ref[t]], RateDen) = UnseenInfo("token").val
             ELSE Float(Len(queue'[ref[t]]), 1) = UnseenInfo("leaky").val)]_vars

\* get_client_info has answered for a client without a bucket while the
\* other client has one, and no bucket was made for the asker
C37_Witness ==
  \E t \in Threads :
    /\ Returned(t)
    /\ call[t].op = "get_client_info"
    /\ ret[t] = UnseenInfo(call[t].algo)
    /\ buckets[call[t].algo][call[t].client] = 0
    /\ nbuckets[call[t].algo] = 1

\* C38: a bucket constructed with any initial_tokens / initial_size starts
\* with a level between 0 and capacity, so that its first burst admits at
\* most capacity.
C38_InitialLevelBounded ==
  (variant = "AP" /\ built = "ok" /\ ncalls = 0) =>
    /\ \A b \in TokenBuckets : 0 <= tokens[b] /\ tokens[b] <= CapUnits
    /\ \A b \in LeakyBuckets : Len(queue[b]) <= capacity

\* C39: a request to /api/token-bucket leaves the leaky limiter as it is
\* and a request to /api/leaky-bucket leaves the token limiter as it is; an
\* endpoint answers 200 exactly when its limiter admitted the request and
\* 429, with a retry_after value, exactly when it denied it; each reset of
\* POST /api/reset leaves its limiter with a full allowance, and the
\* handler answers after both.
C39_ServerEndpoints ==
  [][\A t \in Threads :
       pc'[t] # pc[t] =>
         /\ (call'[t].op = "allow_request" /\ call'[t].algo = "token") =>
              UNCHANGED leakvars
         /\ (call'[t].op = "allow_request" /\ call'[t].algo = "leaky") =>
              UNCHANGED tokvars
         /\ (/\ pc[t] = "done" /\ pc'[t] = "responded"
             /\ call[t].op = "allow_request") =>
              (/\ ret'[t].code = 200 <=> ok[t]
               /\ ret'[t].code = 429 <=> ~ok[t]
               /\ ret'[t].code = 429 <=>
                    (ret'[t].wait.tag = "float" /\ ret'[t].wait.num >= 0))
         /\ (pc[t] = "reset" /\ call[t].algo = "token") =>
              tokens'[ref[t]] = CapUnits
         /\ (pc[t] = "reset" /\ call[t].algo = "leaky") =>
              queue'[ref[t]] = <<>>
         /\ (/\ pc[t] = "done" /\ pc'[t] = "responded"
             /\ call[t].op = "reset") =>
              (ret'[t].code = 200 /\ call[t].algo = "leaky")]_vars

\* both limiters had admitted a request, and POST /api/reset has answered
\* with both at full allowance again
C39_Witness ==
  \E t \in Threads :
    /\ limits.server
    /\ pc[t] = "responded"
    /\ call[t].op = "reset"
    /\ ret[t].code = 200
    /\ firstuse["token"]["A"].adm > 0
    /\ firstuse["leaky"]["A"].adm > 0
    /\ tokens[1] = CapUnits
    /\ queue[1] = <<>>
    /\ last_leak[1] = now

\* C40: in the leaky bucket built on deque(maxlen=capacity) an append is
\* only made when len(queue) < capacity, so that no add_request, admitted
\* or denied, drops a queued entry: entries leave the queue only through
\* the leak step.
C40_NoSilentEviction ==
  [][variant = "AP" =>
       \A b \in LeakyBuckets :
         \/ queue'[b] = queue[b]
         \/ /\ Len(queue[b]) < capacity
            /\ queue'[b] = Append(queue[b], now)
            /\ \E t \in Threads : pc[t] = "add_finish" /\ ref[t] = b /\ ok[t]
         \/ queue'[b] = Leaked(b, now).queue]_vars

\* an add_request on a full deque was denied, and the entry queued at an
\* earlier clock reading is still there
C40_Witness ==
  \E t \in Threads :
    /\ variant = "AP"
    /\ Returned(t)
    /\ call[t].algo = "leaky"
    /\ call[t].op \in {"add_request", "allow_request"}
    /\ ret[t].kind = "bool"
    /\ ~ret[t].allowed
    /\ ref[t] \in LeakyBuckets
    /\ Len(queue[ref[t]]) = capacity
    /\ Head(queue[ref[t]]) < now

====
